---- MODULE Spec2Model ----
(***************************************************************************)
(* Model of infermedica_api/connectors/v2.py: the low-level connector      *)
(* APIv2Connector (primitive arguments in, raw JSON out) and the           *)
(* high-level connector ModelAPIv2Connector (session objects in, typed     *)
(* results out), driven by a sequential caller over a transport that       *)
(* answers or fails.                                                       *)
(*                                                                         *)
(* Python values are modelled as follows.  A dict is a function whose      *)
(* domain is a set of strings.  None is the string NoneStr where a string  *)
(* is expected, and the option NoneOpt where a dict or a list is expected  *)
(* (Some(x) wraps a value that was given).  A caller's dict object that a  *)
(* handler updates in place is a variable holding its current content.     *)
(***************************************************************************)
EXTENDS Integers, Sequences, FiniteSets, TLC

(* ---------------------------- bounds ----------------------------------- *)
MaxEvidence == 2
MaxTypes == 2

(* ------------------------- Python values ------------------------------- *)
NoneStr == "<None>"
EmptyMap == <<>>
NoneOpt == [some |-> FALSE, val |-> <<>>]
Some(x) == [some |-> TRUE, val |-> x]

\* dict.update: the entries of u are written over those of d.
Update(d, u) ==
  [k \in (DOMAIN d) \cup (DOMAIN u) |-> IF k \in DOMAIN u THEN u[k] ELSE d[k]]

\* Python truthiness of an optional string and of an optional dict or list.
TruthyStr(s) == s # NoneStr /\ s # ""
TruthyOpt(o) == o.some /\ DOMAIN o.val # {}

SeqsUpTo(S, n) == UNION {[1..k -> S] : k \in 0..n}

(* ------------------------- input domains ------------------------------- *)
EvidenceItems == {"s_1", "s_2"}
EvidenceLists == SeqsUpTo(EvidenceItems, MaxEvidence)
Patients == {[sex |-> "female", age |-> 30], [sex |-> "male", age |-> 42]}
ExtrasValues == {NoneOpt, Some(EmptyMap), Some("disable_groups" :> "true")}
InterviewIds == {"abc123"}
OptInterviewIds == {NoneStr} \cup InterviewIds
TargetIds == {"c_1", "c_2"}
RiskFactorIds == {"p_1"}
LabTestIds == {"lt_1"}

InterviewHeader == "Interview-Id"
HeaderInits ==
  { EmptyMap,
    "X-Trace" :> "t1",
    ("X-Trace" :> "t1") @@ (InterviewHeader :> "stale") }

\* What the caller may pass as params and as data: nothing, or a dict of its own.
ParamArgs ==
  { NoneOpt,
    Some("lang" :> "en"),
    Some(("phrase" :> "fever") @@ ("max_results" :> 3)) }
DataArgs ==
  { NoneOpt,
    Some("correct_spelling" :> "no"),
    Some(("text" :> "caller text") @@ ("include_tokens" :> TRUE)) }

Phrases == {"headache"}
Texts == {"my head hurts"}
SearchSexes == {NoneStr, "female"}
\* max_results as the caller writes it: left out (<<>>) or given (<<n>>).
NotGiven == <<>>
MaxResultsArgs == {NotGiven, <<5>>}

\* SearchConceptType (connectors/common.py): the closed enumeration, by value.
SearchConceptTypeValues == {"symptom", "risk_factor", "lab_test"}
\* An entry of `types` is an enumeration member or a raw string.
Member(v) == [enum |-> TRUE, v |-> v]
Raw(s) == [enum |-> FALSE, v |-> s]
TypeEntries == {Member("symptom"), Raw("risk_factor"), Raw("condition"), Raw("bogus")}
TypeArgs == {NoneOpt} \cup {Some(l) : l \in SeqsUpTo(TypeEntries, MaxTypes)}

\* The caller's session objects (models.Diagnosis), by reference.
SessionIds == {1, 2}
NoSession ==
  [ sex |-> NoneStr, age |-> 0, evidence |-> <<>>, extras |-> NoneOpt,
    interview_id |-> NoneStr, result |-> NoneStr ]
SessionInits ==
  (1 :> [ sex |-> "female", age |-> 30, evidence |-> <<>>,
          extras |-> Some(EmptyMap), interview_id |-> NoneStr,
          result |-> NoneStr ])
  @@ (2 :> [ sex |-> "male", age |-> 42, evidence |-> <<"s_1", "s_2">>,
             extras |-> Some("disable_groups" :> "true"),
             interview_id |-> "abc123", result |-> NoneStr ])

Responses == {"r1", "r2"}
TransportOutcomes ==
  {[kind |-> "ok", val |-> r] : r \in Responses}
    \cup {[kind |-> "error", val |-> e] : e \in {"TransportError", "NetworkError"}}

(* ---------------------------- state ------------------------------------ *)
VARIABLES
  sessions,       \* the session objects in memory: reference -> fields
  callerHeaders,  \* content of the headers dict object the caller owns
  paramsObj,      \* the params dict object passed to the last call, as it is now
  dataObj,        \* the data dict object passed to the last call, as it is now
  op,             \* the operation last invoked, "idle" once the caller moved on
  args,           \* the arguments of that invocation, as they were passed
  sent,           \* the transport calls that invocation made, in order
  outcome,        \* what the invocation gave the caller: a return or a raise
  latest          \* history: per session, the transport's answer to the latest
                  \* high-level diagnosis call on it that succeeded

vars == <<sessions, callerHeaders, paramsObj, dataObj, op, args, sent, outcome, latest>>

NoArgs ==
  [ evidence |-> <<>>, sex |-> NoneStr, age |-> 0, extras |-> NoneOpt,
    interview_id |-> NoneStr, target_id |-> NoneStr, max_results |-> NotGiven,
    phrase |-> NoneStr, types |-> NoneOpt, text |-> NoneStr,
    include_tokens |-> FALSE,
    session |-> 0, before |-> NoSession,
    headers |-> NoneOpt, params |-> NoneOpt, data |-> NoneOpt ]

\* ref: the reference of the object returned, 0 when the result is no object.
NoOutcome == [kind |-> "none", type |-> NoneStr, val |-> NoneStr, ref |-> 0]

\* The headers argument of a call: none, or the dict object the caller owns.
HeaderArgs == {NoneOpt, Some(callerHeaders)}

(* -------------------- collaborators outside v2.py ---------------------- *)
\* BaseAPIConnector.get_interview_id_headers
get_interview_id_headers(interview_id) ==
  IF interview_id = NoneStr THEN EmptyMap ELSE InterviewHeader :> interview_id

\* SearchConceptType.get_value: a member's value, a raw string as it is.
get_value(concept_type) == concept_type.v
\* SearchConceptType.has_value
has_value(val) == val \in SearchConceptTypeValues

\* One request handed to the transport by the parent's method of the same
\* name (call_api_get for search, call_api_post for the others).
Request(method, data, params, headers) ==
  [method |-> method, id |-> NoneStr, data |-> data, params |-> params,
   headers |-> headers]

\* The request of a lookup: a GET of the concept list, or of one concept by id.
LookupRequest(method, id, kw) ==
  [method |-> method, id |-> id, data |-> NoneOpt, params |-> kw.params,
   headers |-> kw.headers]

\* The transport's answer r is returned, its failure r is raised.
Propagate(r) ==
  IF r.kind = "ok"
  THEN [kind |-> "return", type |-> "json", val |-> r.val, ref |-> 0]
  ELSE [kind |-> "raise", type |-> r.val, val |-> NoneStr, ref |-> 0]

\* The parent's method of the same name (BasicAPICommonMethodsMixin): one
\* call_api_get or call_api_post, whose result or error is the method's.
call_api(req, r) ==
  [sent |-> <<[request |-> req, answer |-> r]>>, outcome |-> Propagate(r)]

\* models.Diagnosis.get_api_request
get_api_request(d) ==
  [sex |-> d.sex, age |-> d.age, evidence |-> d.evidence, extras |-> d.extras]

\* models.Diagnosis.update_from_api: the response becomes the session's
\* condition and question state.
update_from_api(d, response) == [d EXCEPT !.result = response]

\* models.<Type>.from_json over a well-formed response.
from_json(type, response) ==
  [kind |-> "return", type |-> type, val |-> response, ref |-> 0]

(* ----------------------- BasicAPIv2Connector --------------------------- *)
basic_red_flags(data, params, headers, r) ==
  call_api(Request("red_flags", data, params, headers), r)

(* ------------------------- APIv2Connector ------------------------------ *)
\* max_results: Optional[int] = 8 in the signatures of search, suggest and
\* red_flags (both connectors).
DefaultMaxResults == 8
MaxResultsOrDefault(max_results) ==
  IF max_results = NotGiven THEN DefaultMaxResults ELSE max_results[1]

\* Faults of get_diagnostic_data_dict: `if extras is not None` for `if extras`,
\* and an evidence list rebuilt without its repeated items.
get_diagnostic_data_dict_not_none(evidence, sex, age, extras) ==
  LET data == [sex |-> sex, age |-> age, evidence |-> evidence]
  IN  IF extras.some THEN Update(data, "extras" :> extras.val) ELSE data

RECURSIVE Dedup(_)
Dedup(l) ==
  IF l = <<>> THEN <<>>
  ELSE LET rest == Dedup(Tail(l))
       IN  IF \E i \in 1..Len(rest) : rest[i] = Head(l) THEN rest
           ELSE <<Head(l)>> \o rest

get_diagnostic_data_dict_dedup(evidence, sex, age, extras) ==
  LET data == [sex |-> sex, age |-> age, evidence |-> Dedup(evidence)]
  IN  IF TruthyOpt(extras) THEN Update(data, "extras" :> extras.val) ELSE data

get_diagnostic_data_dict(evidence, sex, age, extras) ==
  LET data == [sex |-> sex, age |-> age, evidence |-> evidence]
  IN  IF TruthyOpt(extras) THEN Update(data, "extras" :> extras.val) ELSE data

\* kwargs.pop(key, {}): the caller's dict object when given, else a new dict.
Pop(given) == IF given.some THEN given.val ELSE EmptyMap

\* Fault: the update the other way round, the caller's entries on top.
MergeInterviewHeaders_caller_wins(headers, interview_id) ==
  Update(get_interview_id_headers(interview_id), headers)

\* headers.update(self.get_interview_id_headers(interview_id=interview_id))
MergeInterviewHeaders(headers, interview_id) ==
  Update(headers, get_interview_id_headers(interview_id))

\* Fault: a failed call is tried once more and its failure answered with an
\* empty result.
CallParent_retry(req, r) ==
  IF r.kind = "ok" THEN call_api(req, r)
  ELSE [sent |-> call_api(req, r).sent \o call_api(req, r).sent,
        outcome |-> [kind |-> "return", type |-> "json", val |-> NoneStr, ref |-> 0]]

\* return super().<method>(...): the parent is called once and what it returns
\* or raises is what the handler returns or raises.
CallParent(req, r) == call_api(req, r)

\* What a handler leaves behind: the content of the headers, params and data
\* dicts it worked on, the transport calls it made and its return or raise.
Done(headers, params, data, call) ==
  [headers |-> headers, params |-> params, data |-> data,
   sent |-> call.sent, outcome |-> call.outcome]

\* Fault: the loop runs to its end and reports the last invalid entry it saw.
RECURSIVE LastInvalid(_, _)
LastInvalid(l, i) ==
  IF i > Len(l) THEN 0
  ELSE LET later == LastInvalid(l, i + 1)
       IN  IF later # 0 THEN later
           ELSE IF ~has_value(l[i]) THEN i ELSE 0

\* The index of the first entry of l that is no value of the enumeration, 0
\* when every entry is one (the loop of search).
RECURSIVE FirstInvalid(_, _)
FirstInvalid(l, i) ==
  IF i > Len(l) THEN 0
  ELSE IF ~has_value(l[i]) THEN i
  ELSE FirstInvalid(l, i + 1)

search_types(types) == [i \in 1..Len(types) |-> get_value(types[i])]

\* Fault: sex is written whether or not one was given.
search_params_always_sex(params, phrase, sex, max_results) ==
  Update(params, ("phrase" :> phrase) @@ ("max_results" :> max_results)
                   @@ ("sex" :> sex))

\* Fault: the operation's entries are laid under the caller's, not over them.
search_params_caller_wins(params, phrase, sex, max_results) ==
  LET own == ("phrase" :> phrase) @@ ("max_results" :> max_results)
      p1 == Update(own, params)
  IN  IF TruthyStr(sex) /\ "sex" \notin DOMAIN params
      THEN Update(p1, "sex" :> sex) ELSE p1

search_params(params, phrase, sex, max_results) ==
  LET p1 == Update(params, ("phrase" :> phrase) @@ ("max_results" :> max_results))
  IN  IF TruthyStr(sex) THEN Update(p1, "sex" :> sex) ELSE p1

api_search(phrase, sex, max_results, types, kw, r) ==
  LET params == search_params(Pop(kw.params), phrase, sex,
                              MaxResultsOrDefault(max_results))
      types_as_str_list == search_types(types.val)
      bad == FirstInvalid(types_as_str_list, 1)
  IN  IF TruthyOpt(types) /\ bad # 0
      THEN Done(kw.headers.val, params, EmptyMap,
                [sent |-> <<>>,
                 outcome |-> [kind |-> "raise", type |-> "InvalidSearchConceptType",
                              val |-> types_as_str_list[bad], ref |-> 0]])
      ELSE LET full == IF TruthyOpt(types)
                       THEN Update(params, "type" :> types_as_str_list)
                       ELSE params
           IN  Done(kw.headers.val, full, EmptyMap,
                    CallParent(Request("search", NoneOpt, Some(full), kw.headers), r))

api_parse(text, include_tokens, interview_id, kw, r) ==
  LET headers == MergeInterviewHeaders(Pop(kw.headers), interview_id)
      data == Update(Pop(kw.data),
                     ("text" :> text) @@ ("include_tokens" :> include_tokens))
  IN  Done(headers, kw.params.val, data,
           CallParent(Request("parse", Some(data), kw.params, Some(headers)), r))

api_suggest(evidence, sex, age, extras, max_results, interview_id, kw, r) ==
  LET params == Update(Pop(kw.params),
                       "max_results" :> MaxResultsOrDefault(max_results))
      headers == MergeInterviewHeaders(Pop(kw.headers), interview_id)
      data == get_diagnostic_data_dict(evidence, sex, age, extras)
  IN  Done(headers, params, EmptyMap,
           CallParent(Request("suggest", Some(data), Some(params), Some(headers)), r))

api_red_flags(evidence, sex, age, extras, max_results, interview_id, kw, r) ==
  LET params == Update(Pop(kw.params),
                       "max_results" :> MaxResultsOrDefault(max_results))
      headers == MergeInterviewHeaders(Pop(kw.headers), interview_id)
      data == get_diagnostic_data_dict(evidence, sex, age, extras)
  IN  Done(headers, params, EmptyMap,
           basic_red_flags(Some(data), Some(params), Some(headers), r))

\* diagnosis, rationale and triage: the same handler but for the parent's
\* method called; what is left of kwargs (params) goes to the parent as it is.
api_diagnosis_like(method, evidence, sex, age, extras, interview_id, kw, r) ==
  LET headers == MergeInterviewHeaders(Pop(kw.headers), interview_id)
      data == get_diagnostic_data_dict(evidence, sex, age, extras)
  IN  Done(headers, kw.params.val, EmptyMap,
           CallParent(Request(method, Some(data), kw.params, Some(headers)), r))

api_diagnosis(evidence, sex, age, extras, interview_id, kw, r) ==
  api_diagnosis_like("diagnosis", evidence, sex, age, extras, interview_id, kw, r)

api_rationale(evidence, sex, age, extras, interview_id, kw, r) ==
  api_diagnosis_like("rationale", evidence, sex, age, extras, interview_id, kw, r)

api_triage(evidence, sex, age, extras, interview_id, kw, r) ==
  api_diagnosis_like("triage", evidence, sex, age, extras, interview_id, kw, r)

\* Fault: the target is left out of the body.
explain_data_no_target(target_id, evidence, sex, age, extras) ==
  get_diagnostic_data_dict(evidence, sex, age, extras)

explain_data(target_id, evidence, sex, age, extras) ==
  Update(get_diagnostic_data_dict(evidence, sex, age, extras), "target" :> target_id)

api_explain(target_id, evidence, sex, age, extras, interview_id, kw, r) ==
  LET headers == MergeInterviewHeaders(Pop(kw.headers), interview_id)
      data == explain_data(target_id, evidence, sex, age, extras)
  IN  Done(headers, kw.params.val, EmptyMap,
           CallParent(Request("explain", Some(data), kw.params, Some(headers)), r))

(* ----------------------- ModelAPIv2Connector --------------------------- *)
\* What a high-level handler leaves behind: as Done, with the caller's dicts
\* as they are after the call and the session objects as they are after it.
High(low, kw, heap, result) ==
  [headers |-> IF kw.headers.some THEN low.headers ELSE EmptyMap,
   params |-> IF kw.params.some THEN low.params ELSE EmptyMap,
   data |-> EmptyMap, sent |-> low.sent, outcome |-> result, heap |-> heap]

\* The kwargs of suggest and red_flags are not handed to the parent: the
\* caller's dicts stay as they were passed.
Dropped(low, kw, heap, result) ==
  [headers |-> kw.headers.val, params |-> kw.params.val, data |-> EmptyMap,
   sent |-> low.sent, outcome |-> result, heap |-> heap]

NoKw == [headers |-> NoneOpt, params |-> NoneOpt, data |-> NoneOpt]

\* The typed result of a response, or the error the low-level call raised.
Converted(type, low) ==
  IF low.outcome.kind = "raise" THEN low.outcome
  ELSE from_json(type, low.outcome.val)

model_suggest(heap, ref, max_results, kw, r) ==
  LET data == get_api_request(heap[ref])
      low == api_suggest(data.evidence, data.sex, data.age, data.extras,
                         <<MaxResultsOrDefault(max_results)>>,
                         heap[ref].interview_id, NoKw, r)
  IN  Dropped(low, kw, heap, low.outcome)

model_red_flags(heap, ref, max_results, kw, r) ==
  LET data == get_api_request(heap[ref])
      low == api_red_flags(data.evidence, data.sex, data.age, data.extras,
                           <<MaxResultsOrDefault(max_results)>>,
                           heap[ref].interview_id, NoKw, r)
  IN  Dropped(low, kw, heap, Converted("RedFlagList", low))

model_parse(heap, text, include_tokens, interview_id, kw, r) ==
  LET low == api_parse(text, include_tokens, interview_id, kw, r)
  IN  [High(low, kw, heap, Converted("ParseResults", low))
         EXCEPT !.data = IF kw.data.some THEN low.data ELSE EmptyMap]

\* Fault: the response is put into a new session object, which is returned.
model_diagnosis_new_object(heap, ref, kw, r) ==
  LET data == get_api_request(heap[ref])
      low == api_diagnosis(data.evidence, data.sex, data.age, data.extras,
                           heap[ref].interview_id, kw, r)
      new == Cardinality(DOMAIN heap) + 1
  IN  IF low.outcome.kind = "raise"
      THEN High(low, kw, heap, low.outcome)
      ELSE High(low, kw,
                heap @@ (new :> update_from_api(heap[ref], low.outcome.val)),
                [kind |-> "return", type |-> "Diagnosis",
                 val |-> low.outcome.val, ref |-> new])

\* Fault: update_from_api is applied whatever the transport call gave.
model_diagnosis_updates_on_failure(heap, ref, kw, r) ==
  LET data == get_api_request(heap[ref])
      low == api_diagnosis(data.evidence, data.sex, data.age, data.extras,
                           heap[ref].interview_id, kw, r)
      upd == [heap EXCEPT ![ref] = update_from_api(@, low.outcome.val)]
  IN  IF low.outcome.kind = "raise"
      THEN High(low, kw, upd, low.outcome)
      ELSE High(low, kw, upd,
                [kind |-> "return", type |-> "Diagnosis",
                 val |-> low.outcome.val, ref |-> ref])

model_diagnosis(heap, ref, kw, r) ==
  LET data == get_api_request(heap[ref])
      low == api_diagnosis(data.evidence, data.sex, data.age, data.extras,
                           heap[ref].interview_id, kw, r)
  IN  IF low.outcome.kind = "raise"
      THEN High(low, kw, heap, low.outcome)
      ELSE High(low, kw,
                [heap EXCEPT ![ref] = update_from_api(@, low.outcome.val)],
                [kind |-> "return", type |-> "Diagnosis",
                 val |-> low.outcome.val, ref |-> ref])

\* Fault: the response is written into the session, as diagnosis does.
model_rationale_updates(heap, ref, kw, r) ==
  LET data == get_api_request(heap[ref])
      low == api_rationale(data.evidence, data.sex, data.age, data.extras,
                           heap[ref].interview_id, kw, r)
  IN  IF low.outcome.kind = "raise"
      THEN High(low, kw, heap, low.outcome)
      ELSE High(low, kw,
                [heap EXCEPT ![ref] = update_from_api(@, low.outcome.val)],
                Converted("RationaleResult", low))

model_rationale(heap, ref, kw, r) ==
  LET data == get_api_request(heap[ref])
      low == api_rationale(data.evidence, data.sex, data.age, data.extras,
                           heap[ref].interview_id, kw, r)
  IN  High(low, kw, heap, Converted("RationaleResult", low))

model_explain(heap, ref, target_id, kw, r) ==
  LET data == get_api_request(heap[ref])
      low == api_explain(target_id, data.evidence, data.sex, data.age, data.extras,
                         heap[ref].interview_id, kw, r)
  IN  High(low, kw, heap, Converted("ExplainResults", low))

model_triage(heap, ref, kw, r) ==
  LET data == get_api_request(heap[ref])
      low == api_triage(data.evidence, data.sex, data.age, data.extras,
                        heap[ref].interview_id, kw, r)
  IN  High(low, kw, heap, low.outcome)

\* condition_details .. lab_tests_list: the parent's lookup is called with
\* the kwargs as they are, and its result converted.
model_lookup(method, id, type, heap, kw, r) ==
  LET call == CallParent(LookupRequest(method, id, kw), r)
      low == Done(kw.headers.val, kw.params.val, EmptyMap, call)
  IN  High(low, kw, heap, Converted(type, low))

model_condition_details(condition_id, heap, kw, r) ==
  model_lookup("conditions", condition_id, "Condition", heap, kw, r)
model_conditions_list(heap, kw, r) ==
  model_lookup("conditions", NoneStr, "ConditionList", heap, kw, r)
model_symptom_details(symptom_id, heap, kw, r) ==
  model_lookup("symptoms", symptom_id, "Symptom", heap, kw, r)
model_symptoms_list(heap, kw, r) ==
  model_lookup("symptoms", NoneStr, "SymptomList", heap, kw, r)
model_risk_factor_details(risk_factor_id, heap, kw, r) ==
  model_lookup("risk_factors", risk_factor_id, "RiskFactor", heap, kw, r)
model_risk_factors_list(heap, kw, r) ==
  model_lookup("risk_factors", NoneStr, "RiskFactorList", heap, kw, r)
model_lab_test_details(lab_test_id, heap, kw, r) ==
  model_lookup("lab_tests", lab_test_id, "LabTest", heap, kw, r)
model_lab_tests_list(heap, kw, r) ==
  model_lookup("lab_tests", NoneStr, "LabTestList", heap, kw, r)

(* ------------------------------ actions -------------------------------- *)
Kw(h, p, d) == [headers |-> h, params |-> p, data |-> d]

\* One invocation by the caller: the handler runs to its return or raise; a
\* dict the caller passed in is the object the handler worked on.
Invoke(name, a, done) ==
  /\ op' = name
  /\ args' = a
  /\ callerHeaders' = IF a.headers.some THEN done.headers ELSE callerHeaders
  /\ paramsObj' = IF a.params.some THEN Some(done.params) ELSE NoneOpt
  /\ dataObj' = IF a.data.some THEN Some(done.data) ELSE NoneOpt
  /\ sent' = done.sent
  /\ outcome' = done.outcome

InvokeLow(name, a, done) ==
  /\ Invoke(name, a, done)
  /\ UNCHANGED <<sessions, latest>>

InvokeHigh(name, a, done) ==
  /\ Invoke(name, a, done)
  /\ sessions' = done.heap

SessionArgs(ref, h) ==
  [NoArgs EXCEPT !.session = ref, !.before = sessions[ref], !.headers = h]

LowSearch ==
  /\ op = "idle"
  /\ \E phrase \in Phrases, sex \in SearchSexes, max_results \in MaxResultsArgs,
     types \in TypeArgs, h \in HeaderArgs, p \in ParamArgs, r \in TransportOutcomes :
    InvokeLow("api.search",
           [NoArgs EXCEPT !.phrase = phrase, !.sex = sex, !.max_results = max_results,
                          !.types = types, !.headers = h, !.params = p],
           api_search(phrase, sex, max_results, types, Kw(h, p, NoneOpt), r))

LowParse ==
  /\ op = "idle"
  /\ \E text \in Texts, include_tokens \in BOOLEAN, interview_id \in OptInterviewIds,
     h \in HeaderArgs, p \in ParamArgs, d \in DataArgs, r \in TransportOutcomes :
    InvokeLow("api.parse",
           [NoArgs EXCEPT !.text = text, !.include_tokens = include_tokens,
                          !.interview_id = interview_id,
                          !.headers = h, !.params = p, !.data = d],
           api_parse(text, include_tokens, interview_id, Kw(h, p, d), r))

DiagArgs(pt, evidence, extras, interview_id, h, p) ==
  [NoArgs EXCEPT !.evidence = evidence, !.sex = pt.sex, !.age = pt.age,
                 !.extras = extras, !.interview_id = interview_id,
                 !.headers = h, !.params = p]

LowSuggest ==
  /\ op = "idle"
  /\ \E pt \in Patients, evidence \in EvidenceLists, extras \in ExtrasValues,
     max_results \in MaxResultsArgs, interview_id \in OptInterviewIds,
     h \in HeaderArgs, p \in ParamArgs, r \in TransportOutcomes :
    InvokeLow("api.suggest",
           [DiagArgs(pt, evidence, extras, interview_id, h, p)
              EXCEPT !.max_results = max_results],
           api_suggest(evidence, pt.sex, pt.age, extras, max_results, interview_id,
                       Kw(h, p, NoneOpt), r))

LowRedFlags ==
  /\ op = "idle"
  /\ \E pt \in Patients, evidence \in EvidenceLists, extras \in ExtrasValues,
     max_results \in MaxResultsArgs, interview_id \in OptInterviewIds,
     h \in HeaderArgs, p \in ParamArgs, r \in TransportOutcomes :
    InvokeLow("api.red_flags",
           [DiagArgs(pt, evidence, extras, interview_id, h, p)
              EXCEPT !.max_results = max_results],
           api_red_flags(evidence, pt.sex, pt.age, extras, max_results, interview_id,
                         Kw(h, p, NoneOpt), r))

LowDiagnosis ==
  /\ op = "idle"
  /\ \E pt \in Patients, evidence \in EvidenceLists, extras \in ExtrasValues,
     interview_id \in OptInterviewIds, h \in HeaderArgs, r \in TransportOutcomes :
    InvokeLow("api.diagnosis", DiagArgs(pt, evidence, extras, interview_id, h, NoneOpt),
           api_diagnosis(evidence, pt.sex, pt.age, extras, interview_id,
                         Kw(h, NoneOpt, NoneOpt), r))

LowRationale ==
  /\ op = "idle"
  /\ \E pt \in Patients, evidence \in EvidenceLists, extras \in ExtrasValues,
     interview_id \in OptInterviewIds, h \in HeaderArgs, r \in TransportOutcomes :
    InvokeLow("api.rationale", DiagArgs(pt, evidence, extras, interview_id, h, NoneOpt),
           api_rationale(evidence, pt.sex, pt.age, extras, interview_id,
                         Kw(h, NoneOpt, NoneOpt), r))

LowTriage ==
  /\ op = "idle"
  /\ \E pt \in Patients, evidence \in EvidenceLists, extras \in ExtrasValues,
     interview_id \in OptInterviewIds, h \in HeaderArgs, r \in TransportOutcomes :
    InvokeLow("api.triage", DiagArgs(pt, evidence, extras, interview_id, h, NoneOpt),
           api_triage(evidence, pt.sex, pt.age, extras, interview_id,
                      Kw(h, NoneOpt, NoneOpt), r))

LowExplain ==
  /\ op = "idle"
  /\ \E target_id \in TargetIds, pt \in Patients, evidence \in EvidenceLists,
     extras \in ExtrasValues, interview_id \in OptInterviewIds, h \in HeaderArgs,
     r \in TransportOutcomes :
    InvokeLow("api.explain",
           [DiagArgs(pt, evidence, extras, interview_id, h, NoneOpt)
              EXCEPT !.target_id = target_id],
           api_explain(target_id, evidence, pt.sex, pt.age, extras, interview_id,
                       Kw(h, NoneOpt, NoneOpt), r))

\* BasicAPIv2Connector.red_flags called with a body the caller assembled.
BasicRedFlags ==
  /\ op = "idle"
  /\ \E d \in DataArgs \ {NoneOpt}, h \in HeaderArgs, p \in ParamArgs,
        r \in TransportOutcomes :
       InvokeLow("basic.red_flags",
                 [NoArgs EXCEPT !.headers = h, !.params = p, !.data = d],
                 Done(h.val, p.val, d.val, basic_red_flags(d, p, h, r)))

HighSuggest ==
  /\ op = "idle"
  /\ \E ref \in SessionIds, max_results \in MaxResultsArgs, h \in HeaderArgs,
        r \in TransportOutcomes :
       /\ InvokeHigh("model.suggest",
                     [SessionArgs(ref, h) EXCEPT !.max_results = max_results],
                     model_suggest(sessions, ref, max_results, Kw(h, NoneOpt, NoneOpt), r))
       /\ UNCHANGED latest

HighRedFlags ==
  /\ op = "idle"
  /\ \E ref \in SessionIds, max_results \in MaxResultsArgs, h \in HeaderArgs,
        r \in TransportOutcomes :
       /\ InvokeHigh("model.red_flags",
                     [SessionArgs(ref, h) EXCEPT !.max_results = max_results],
                     model_red_flags(sessions, ref, max_results, Kw(h, NoneOpt, NoneOpt), r))
       /\ UNCHANGED latest

HighParse ==
  /\ op = "idle"
  /\ \E text \in Texts, include_tokens \in BOOLEAN, interview_id \in OptInterviewIds,
        h \in HeaderArgs, d \in DataArgs, r \in TransportOutcomes :
       /\ InvokeHigh("model.parse",
                     [NoArgs EXCEPT !.text = text, !.include_tokens = include_tokens,
                                    !.interview_id = interview_id,
                                    !.headers = h, !.data = d],
                     model_parse(sessions, text, include_tokens, interview_id,
                                 Kw(h, NoneOpt, d), r))
       /\ UNCHANGED latest

HighDiagnosis ==
  /\ op = "idle"
  /\ \E ref \in SessionIds, h \in HeaderArgs, r \in TransportOutcomes :
       /\ InvokeHigh("model.diagnosis", SessionArgs(ref, h),
                     model_diagnosis(sessions, ref, Kw(h, NoneOpt, NoneOpt), r))
       /\ latest' = IF r.kind = "ok" THEN [latest EXCEPT ![ref] = r.val] ELSE latest

HighRationale ==
  /\ op = "idle"
  /\ \E ref \in SessionIds, h \in HeaderArgs, r \in TransportOutcomes :
       /\ InvokeHigh("model.rationale", SessionArgs(ref, h),
                     model_rationale(sessions, ref, Kw(h, NoneOpt, NoneOpt), r))
       /\ UNCHANGED latest

HighExplain ==
  /\ op = "idle"
  /\ \E ref \in SessionIds, target_id \in TargetIds, h \in HeaderArgs,
        r \in TransportOutcomes :
       /\ InvokeHigh("model.explain",
                     [SessionArgs(ref, h) EXCEPT !.target_id = target_id],
                     model_explain(sessions, ref, target_id, Kw(h, NoneOpt, NoneOpt), r))
       /\ UNCHANGED latest

HighTriage ==
  /\ op = "idle"
  /\ \E ref \in SessionIds, h \in HeaderArgs, r \in TransportOutcomes :
       /\ InvokeHigh("model.triage", SessionArgs(ref, h),
                     model_triage(sessions, ref, Kw(h, NoneOpt, NoneOpt), r))
       /\ UNCHANGED latest

HighConditionDetails ==
  /\ op = "idle"
  /\ \E id \in TargetIds, h \in HeaderArgs, r \in TransportOutcomes :
       /\ InvokeHigh("model.condition_details", [NoArgs EXCEPT !.target_id = id, !.headers = h],
                     model_condition_details(id, sessions, Kw(h, NoneOpt, NoneOpt), r))
       /\ UNCHANGED latest

HighConditionsList ==
  /\ op = "idle"
  /\ \E h \in HeaderArgs, r \in TransportOutcomes :
       /\ InvokeHigh("model.conditions_list", [NoArgs EXCEPT !.headers = h],
                     model_conditions_list(sessions, Kw(h, NoneOpt, NoneOpt), r))
       /\ UNCHANGED latest

HighSymptomDetails ==
  /\ op = "idle"
  /\ \E id \in EvidenceItems, h \in HeaderArgs, r \in TransportOutcomes :
       /\ InvokeHigh("model.symptom_details", [NoArgs EXCEPT !.target_id = id, !.headers = h],
                     model_symptom_details(id, sessions, Kw(h, NoneOpt, NoneOpt), r))
       /\ UNCHANGED latest

HighSymptomsList ==
  /\ op = "idle"
  /\ \E h \in HeaderArgs, r \in TransportOutcomes :
       /\ InvokeHigh("model.symptoms_list", [NoArgs EXCEPT !.headers = h],
                     model_symptoms_list(sessions, Kw(h, NoneOpt, NoneOpt), r))
       /\ UNCHANGED latest

HighRiskFactorDetails ==
  /\ op = "idle"
  /\ \E id \in RiskFactorIds, h \in HeaderArgs, r \in TransportOutcomes :
       /\ InvokeHigh("model.risk_factor_details", [NoArgs EXCEPT !.target_id = id, !.headers = h],
                     model_risk_factor_details(id, sessions, Kw(h, NoneOpt, NoneOpt), r))
       /\ UNCHANGED latest

HighRiskFactorsList ==
  /\ op = "idle"
  /\ \E h \in HeaderArgs, r \in TransportOutcomes :
       /\ InvokeHigh("model.risk_factors_list", [NoArgs EXCEPT !.headers = h],
                     model_risk_factors_list(sessions, Kw(h, NoneOpt, NoneOpt), r))
       /\ UNCHANGED latest

HighLabTestDetails ==
  /\ op = "idle"
  /\ \E id \in LabTestIds, h \in HeaderArgs, r \in TransportOutcomes :
       /\ InvokeHigh("model.lab_test_details", [NoArgs EXCEPT !.target_id = id, !.headers = h],
                     model_lab_test_details(id, sessions, Kw(h, NoneOpt, NoneOpt), r))
       /\ UNCHANGED latest

HighLabTestsList ==
  /\ op = "idle"
  /\ \E h \in HeaderArgs, r \in TransportOutcomes :
       /\ InvokeHigh("model.lab_tests_list", [NoArgs EXCEPT !.headers = h],
                     model_lab_tests_list(sessions, Kw(h, NoneOpt, NoneOpt), r))
       /\ UNCHANGED latest

\* The caller takes the result (or the error) and moves on to its next call.
Return ==
  /\ op # "idle"
  /\ op' = "idle"
  /\ args' = NoArgs
  /\ sent' = <<>>
  /\ outcome' = NoOutcome
  /\ paramsObj' = NoneOpt
  /\ dataObj' = NoneOpt
  /\ UNCHANGED <<sessions, callerHeaders, latest>>

Init ==
  /\ sessions = SessionInits
  /\ callerHeaders \in HeaderInits
  /\ paramsObj = NoneOpt
  /\ dataObj = NoneOpt
  /\ op = "idle"
  /\ args = NoArgs
  /\ sent = <<>>
  /\ outcome = NoOutcome
  /\ latest = [ref \in SessionIds |-> NoneStr]

Next ==
  \/ LowSearch
  \/ LowParse
  \/ LowSuggest
  \/ LowRedFlags
  \/ LowDiagnosis
  \/ LowRationale
  \/ LowTriage
  \/ LowExplain
  \/ HighSuggest
  \/ HighRedFlags
  \/ HighParse
  \/ HighDiagnosis
  \/ HighRationale
  \/ HighExplain
  \/ HighTriage
  \/ BasicRedFlags
  \/ HighConditionDetails
  \/ HighConditionsList
  \/ HighSymptomDetails
  \/ HighSymptomsList
  \/ HighRiskFactorDetails
  \/ HighRiskFactorsList
  \/ HighLabTestDetails
  \/ HighLabTestsList
  \/ Return

Spec == Init /\ [][Next]_vars

\* A caller that uses the low-level connector only and has put no interview
\* header into its headers dict.
InitClean ==
  /\ Init
  /\ InterviewHeader \notin DOMAIN callerHeaders

NextLow ==
  \/ LowSearch
  \/ LowParse
  \/ LowSuggest
  \/ LowRedFlags
  \/ LowDiagnosis
  \/ LowRationale
  \/ LowTriage
  \/ LowExplain
  \/ Return

SpecLowClean == InitClean /\ [][NextLow]_vars

(* ------------------------------ claims --------------------------------- *)
LowDiagnosticOps ==
  {"api.diagnosis", "api.suggest", "api.red_flags", "api.rationale", "api.triage"}
LowInterviewOps == LowDiagnosticOps \cup {"api.parse", "api.explain"}
LowOps == LowInterviewOps \cup {"api.search"}
HighSessionOps ==
  {"model.suggest", "model.red_flags", "model.diagnosis", "model.rationale",
   "model.explain", "model.triage"}

\* The body of the one request the invocation sent.
Body == sent[1].request.data.val
NonEmpty(o) == o.some /\ Cardinality(DOMAIN o.val) > 0

\* C1: the body sent by the low-level diagnosis, suggest, red_flags, rationale
\* and triage has exactly the keys sex, age and evidence when the extras given
\* are absent or empty, and exactly those keys plus extras, holding the extras
\* given, when they are non-empty.
C1_BodyKeys ==
  (op \in LowDiagnosticOps /\ Len(sent) = 1) =>
    IF NonEmpty(args.extras)
    THEN /\ DOMAIN Body = {"sex", "age", "evidence", "extras"}
         /\ Body.extras = args.extras.val
    ELSE DOMAIN Body = {"sex", "age", "evidence"}

C1_Witness ==
  /\ op = "api.triage"
  /\ Len(sent) = 1
  /\ NonEmpty(args.extras)
  /\ "extras" \in DOMAIN Body

\* C2: a search whose types hold a value outside the enumeration raises
\* InvalidSearchConceptType carrying the first such value in list order,
\* returns nothing and makes no transport call.
InvalidAt(l, i) == l[i].v \notin SearchConceptTypeValues
C2_FirstInvalidRaised ==
  (op = "api.search" /\ args.types.some
     /\ \E i \in 1..Len(args.types.val) : InvalidAt(args.types.val, i)) =>
    /\ outcome.kind = "raise"
    /\ outcome.type = "InvalidSearchConceptType"
    /\ \E i \in 1..Len(args.types.val) :
         /\ InvalidAt(args.types.val, i)
         /\ \A j \in 1..(i - 1) : ~InvalidAt(args.types.val, j)
         /\ outcome.val = args.types.val[i].v
    /\ sent = <<>>

C2_Witness ==
  /\ op = "api.search"
  /\ args.types = Some(<<Member("symptom"), Raw("condition"), Raw("bogus")>>)
       \/ args.types = Some(<<Raw("condition"), Raw("bogus")>>)
  /\ outcome.kind = "raise"
  /\ outcome.val = "condition"

\* C3: a high-level diagnosis call that succeeds returns the session object it
\* was given, and every session on which such a call succeeded holds the
\* transport's answer to the latest of them.
C3_SameSessionUpdated ==
  /\ (op = "model.diagnosis" /\ outcome.kind = "return") =>
       /\ outcome.type = "Diagnosis"
       /\ outcome.ref = args.session
  /\ \A ref \in SessionIds :
       latest[ref] # NoneStr => sessions[ref].result = latest[ref]

C3_Witness ==
  /\ op = "model.diagnosis"
  /\ outcome.kind = "return"
  /\ outcome.ref = 2
  /\ args.before.result = "r1"
  /\ sessions[2].result = "r2"

\* C4: a low-level operation called with an interview id and the caller's
\* headers H sends every entry of H under another key than the interview
\* header unchanged, and the interview header with the id given, also when H
\* has an interview header of its own.
C4_InterviewHeaderMerged ==
  (op \in LowInterviewOps /\ args.interview_id # NoneStr /\ args.headers.some
     /\ Len(sent) = 1) =>
    LET H == args.headers.val
        out == sent[1].request.headers.val
    IN  /\ sent[1].request.headers.some
        /\ InterviewHeader \in DOMAIN out
        /\ out[InterviewHeader] = args.interview_id
        /\ \A k \in (DOMAIN H) \ {InterviewHeader} :
             k \in DOMAIN out /\ out[k] = H[k]

C4_Witness ==
  /\ op = "api.parse"
  /\ args.interview_id = "abc123"
  /\ args.headers = Some(("X-Trace" :> "t1") @@ (InterviewHeader :> "stale"))
  /\ Len(sent) = 1
  /\ sent[1].request.headers.val[InterviewHeader] = "abc123"

\* C5 (as claimed): each of the six high-level session operations called with
\* the caller's headers H sends H merged with the interview header of the
\* session's interview id.
C5_HighHeadersMerged ==
  (op \in HighSessionOps /\ args.headers.some /\ Len(sent) = 1) =>
    /\ sent[1].request.headers.some
    /\ sent[1].request.headers.val
         = Update(args.headers.val, get_interview_id_headers(args.before.interview_id))

\* C6 (as claimed): after a low-level call, the params, headers and data
\* dicts the caller passed in hold the entries they held before the call.
C6_ArgumentsUntouched ==
  op \in LowOps =>
    /\ args.headers.some => callerHeaders = args.headers.val
    /\ args.params.some => paramsObj = args.params
    /\ args.data.some => dataObj = args.data

\* C7: the body sent by explain is the base diagnostic body (sex, age,
\* evidence, and extras when non-empty) plus target, the target id given, and
\* nothing else; evidence [s_1], male, 42 and target c_1 give exactly
\* {sex: male, age: 42, evidence: [s_1], target: c_1}.
C7_ExplainBody ==
  (op = "api.explain" /\ Len(sent) = 1) =>
    /\ DOMAIN Body = {"sex", "age", "evidence", "target"}
                       \cup (IF NonEmpty(args.extras) THEN {"extras"} ELSE {})
    /\ Body.target = args.target_id
    /\ Body.sex = args.sex
    /\ Body.age = args.age
    /\ Body.evidence = args.evidence
    /\ NonEmpty(args.extras) => Body.extras = args.extras.val
    /\ ( /\ args.evidence = <<"s_1">>
         /\ args.sex = "male"
         /\ args.age = 42
         /\ args.target_id = "c_1"
         /\ ~args.extras.some ) =>
         Body = [sex |-> "male", age |-> 42, evidence |-> <<"s_1">>, target |-> "c_1"]

C7_Witness ==
  /\ op = "api.explain"
  /\ Len(sent) = 1
  /\ args.evidence = <<"s_1">>
  /\ args.sex = "male"
  /\ args.target_id = "c_1"
  /\ ~args.extras.some
  /\ Body.target = "c_1"

\* C8: a search with no params of the caller's and only valid types sends the
\* query parameters phrase and max_results (8 when none was given), sex if and
\* only if a sex was given, and type if and only if the types list given is
\* non-empty: the values of the types given, in the order given.
C8_SearchParams ==
  (op = "api.search" /\ ~args.params.some
     /\ \A i \in 1..Len(args.types.val) : ~InvalidAt(args.types.val, i)) =>
    /\ Len(sent) = 1
    /\ sent[1].request.method = "search"
    /\ sent[1].request.params.some
    /\ LET q == sent[1].request.params.val
           l == args.types.val
       IN  /\ DOMAIN q = {"phrase", "max_results"}
                           \cup (IF args.sex # NoneStr THEN {"sex"} ELSE {})
                           \cup (IF args.types.some /\ Len(l) > 0 THEN {"type"} ELSE {})
           /\ q.phrase = args.phrase
           /\ q.max_results = IF args.max_results = NotGiven THEN 8
                              ELSE args.max_results[1]
           /\ args.sex # NoneStr => q.sex = args.sex
           /\ (args.types.some /\ Len(l) > 0) =>
                /\ Len(q.type) = Len(l)
                /\ \A i \in 1..Len(l) : q.type[i] = l[i].v

C8_Witness ==
  /\ op = "api.search"
  /\ ~args.params.some
  /\ args.max_results = NotGiven
  /\ args.sex = "female"
  /\ args.types = Some(<<Raw("risk_factor"), Member("symptom")>>)
  /\ Len(sent) = 1
  /\ sent[1].request.params.val.type = <<"risk_factor", "symptom">>

\* C9: an invocation calls the transport at most once; when that call fails,
\* the invocation raises the transport's error, and returns nothing.
C9_OneCallErrorPropagated ==
  /\ Len(sent) <= 1
  /\ (Len(sent) = 1 /\ sent[1].answer.kind = "error") =>
       /\ outcome.kind = "raise"
       /\ outcome.type = sent[1].answer.val

C9_Witness ==
  /\ op = "model.explain"
  /\ Len(sent) = 1
  /\ sent[1].answer = [kind |-> "error", val |-> "NetworkError"]
  /\ outcome.kind = "raise"

\* C10: the evidence of the body sent by a low-level diagnostic operation is
\* the evidence list given: as long, with the same item at each position; the
\* body for (evidence [], female, 30) reads back as those values.
C10_EvidenceOrderKept ==
  (op \in LowDiagnosticOps \cup {"api.explain"} /\ Len(sent) = 1) =>
    /\ Len(Body.evidence) = Len(args.evidence)
    /\ \A i \in 1..Len(args.evidence) : Body.evidence[i] = args.evidence[i]
    /\ (args.evidence = <<>> /\ args.sex = "female" /\ args.age = 30) =>
         /\ Body.sex = "female"
         /\ Body.age = 30
         /\ Body.evidence = <<>>

C10_Witness ==
  /\ op = "api.diagnosis"
  /\ Len(sent) = 1
  /\ args.evidence = <<"s_2", "s_2">>
  /\ Body.evidence = <<"s_2", "s_2">>

\* The query parameters of the one request the invocation sent.
Query == sent[1].request.params.val
\* The keys of params that search writes in this invocation.
SearchWritten ==
  {"phrase", "max_results"}
    \cup (IF TruthyStr(args.sex) THEN {"sex"} ELSE {})
    \cup (IF NonEmpty(args.types) THEN {"type"} ELSE {})
\* Every entry of the caller's dict d under a key outside `written` is in
\* `out` as it was.
OthersKept(d, written, out) ==
  \A k \in (DOMAIN d) \ written : k \in DOMAIN out /\ out[k] = d[k]
GivenMaxResults ==
  IF args.max_results = NotGiven THEN 8 ELSE args.max_results[1]

\* C11 (as claimed): the interview id of the call overrides the caller's
\* interview header, and under every other key of params and data the value
\* the caller put in the mapping is the one sent.
C11_CallerWinsElsewhere ==
  /\ (op \in LowInterviewOps /\ args.headers.some /\ args.interview_id # NoneStr
        /\ Len(sent) = 1) =>
       sent[1].request.headers.val[InterviewHeader] = args.interview_id
  /\ (op \in {"api.search", "api.suggest", "api.red_flags"} /\ args.params.some
        /\ Len(sent) = 1) =>
       \A k \in DOMAIN args.params.val : Query[k] = args.params.val[k]
  /\ (op = "api.parse" /\ args.data.some /\ Len(sent) = 1) =>
       \A k \in DOMAIN args.data.val : Body[k] = args.data.val[k]

\* C11 (amended): the interview id of the call overrides the caller's
\* interview header, and so does the operation's value under every key the
\* operation sets (phrase, max_results, and sex and type when given in the
\* params of search; max_results in the params of suggest and red_flags; text
\* and include_tokens in the data of parse); what the caller put under the
\* other keys is sent as it was.
C11_OperationWins ==
  /\ (op \in LowInterviewOps /\ args.headers.some /\ args.interview_id # NoneStr
        /\ Len(sent) = 1) =>
       sent[1].request.headers.val[InterviewHeader] = args.interview_id
  /\ (op = "api.search" /\ args.params.some /\ Len(sent) = 1) =>
       /\ Query.phrase = args.phrase
       /\ Query.max_results = GivenMaxResults
       /\ TruthyStr(args.sex) => Query.sex = args.sex
       /\ OthersKept(args.params.val, SearchWritten, Query)
  /\ (op \in {"api.suggest", "api.red_flags"} /\ args.params.some /\ Len(sent) = 1) =>
       /\ Query.max_results = GivenMaxResults
       /\ OthersKept(args.params.val, {"max_results"}, Query)
  /\ (op = "api.parse" /\ args.data.some /\ Len(sent) = 1) =>
       /\ Body.text = args.text
       /\ Body.include_tokens = args.include_tokens
       /\ OthersKept(args.data.val, {"text", "include_tokens"}, Body)

C11_Witness ==
  /\ op = "api.search"
  /\ args.params = Some(("phrase" :> "fever") @@ ("max_results" :> 3))
  /\ args.max_results = NotGiven
  /\ Len(sent) = 1
  /\ Query.phrase = "headache"
  /\ Query.max_results = 8

HighReadOnlyOps ==
  {"model.suggest", "model.red_flags", "model.rationale", "model.explain",
   "model.triage"}

\* C12: a high-level suggest, red_flags, rationale, explain or triage call,
\* whether it returns or raises, leaves every field of every session object
\* (sex, age, evidence, extras, interview id, condition and question state)
\* as it was before the call.
C12_SessionReadOnly ==
  [][op' \in HighReadOnlyOps => sessions' = sessions]_vars

C12_Witness ==
  /\ op = "model.rationale"
  /\ outcome.kind = "return"
  /\ outcome.val = "r2"
  /\ args.before.result = "r1"
  /\ sessions[args.session] = args.before

\* C13 (as claimed): with a caller that passes the same headers dict, into
\* which it never put an interview header itself, to its low-level calls, a
\* call made without an interview id sends no interview header, whatever the
\* calls before it were made with.
C13_NoInterviewHeaderWithoutId ==
  (op \in LowInterviewOps /\ args.headers.some /\ args.interview_id = NoneStr
     /\ Len(sent) = 1) =>
    InterviewHeader \notin DOMAIN sent[1].request.headers.val

\* C14: a high-level diagnosis call whose transport call fails raises and
\* leaves every session as it was before the call (update_from_api is not
\* applied), the caller's taking the error changes no session, and every
\* high-level diagnosis call, the one after a failed call included, builds
\* its body from the state the session holds when the call is made.
C14_FailedDiagnosisKeepsSession ==
  [][ /\ (op' = "model.diagnosis" /\ Len(sent') = 1
            /\ sent'[1].answer.kind = "error") =>
           /\ outcome'.kind = "raise"
           /\ sessions' = sessions
      /\ (op = "model.diagnosis" /\ outcome.kind = "raise") =>
           sessions' = sessions
      /\ op' = "model.diagnosis" =>
           /\ Len(sent') = 1
           /\ LET body == sent'[1].request.data.val
                  s == sessions[args'.session]
              IN  /\ body.sex = s.sex
                  /\ body.age = s.age
                  /\ body.evidence = s.evidence
                  /\ IF NonEmpty(s.extras)
                     THEN /\ "extras" \in DOMAIN body
                          /\ body.extras = s.extras.val
                     ELSE "extras" \notin DOMAIN body
    ]_vars

C14_Witness ==
  /\ op = "model.diagnosis"
  /\ Len(sent) = 1
  /\ sent[1].answer.kind = "error"
  /\ outcome.kind = "raise"
  /\ args.before.result = "r1"
  /\ sessions[args.session] = args.before

====
